---- MODULE Spec2Model ----
(***************************************************************************)
(* Model of src/services/geminiService.ts: the module-level credential and *)
(* client handle, and the two exported async operations getDatasetInsights *)
(* and getVariableSuggestions.  An async call runs synchronously up to its *)
(* first await (one action), and resumes when the remote promise settles   *)
(* (one action for fulfilment, one for rejection).                         *)
(*                                                                         *)
(* Text is a sequence of parts: a message is a sequence of strings, JSON   *)
(* text is a sequence of lexical tokens.  JSON.stringify, String.trim and  *)
(* JSON.parse are computed on those tokens.                                *)
(***************************************************************************)
EXTENDS Integers, Sequences, FiniteSets, TLC

VARIABLES
  API_KEY,     \* process.env.API_KEY as read at load time
  ai,          \* the client handle
  console,     \* what console.warn and console.error have written
  pc,          \* per invocation: "idle", "awaiting" (the remote call), "done"
  op,          \* per invocation: the exported function called
  passed,      \* per invocation: the argument values at the time of the call
  headers,     \* per invocation: the caller's headers array, as it is now
  stats,       \* per invocation: the caller's stats object, as it is now
  sampleData,  \* per invocation: the caller's sampleData array, as it is now
  requests,    \* per invocation: the generateContent calls it has issued
  remote,      \* per invocation: how its remote call settled
  result       \* per invocation: how the returned promise settled

vars == <<API_KEY, ai, console, pc, op, passed, headers, stats, sampleData,
          requests, remote, result>>

(***************************************************************************)
(* Bounds of the model.                                                    *)
(***************************************************************************)
MaxRows == 6
MaxInvocations == 2

Invocations == 1..MaxInvocations

(***************************************************************************)
(* JavaScript values.                                                      *)
(***************************************************************************)
JStr(s) == [k |-> "string", v |-> s]
JNum(n) == [k |-> "number", v |-> n]
JNaN == [k |-> "number", v |-> "NaN"]
JBigInt == [k |-> "bigint", v |-> "1"]
JNull == [k |-> "null", v |-> "null"]
JBool(b) == [k |-> "boolean", v |-> b]
JUndefined == [k |-> "undefined", v |-> "undefined"]
JArr(items) == [k |-> "array", items |-> items]
JObj(fields) == [k |-> "object", fields |-> fields]
\* An object that refers to itself: it has no finite tree form.
JCircular == [k |-> "object", cycle |-> "self"]

IsCircular(x) == x.k = "object" /\ "cycle" \in DOMAIN x

\* obj.name : the last member of that name, undefined when there is none
\* (and for the properties of a primitive or an array that are not set).
RECURSIVE Lookup(_, _, _)
Lookup(fields, name, n) ==
  IF n = 0 THEN JUndefined
  ELSE IF fields[n][1] = name THEN fields[n][2]
  ELSE Lookup(fields, name, n - 1)

GetProp(x, name) ==
  IF x.k = "object" /\ ~IsCircular(x) THEN Lookup(x.fields, name, Len(x.fields))
  ELSE JUndefined

\* ToBoolean
Truthy(x) ==
  CASE x.k = "string" -> x.v # ""
    [] x.k = "number" -> x.v \notin {"0", "NaN"}
    [] x.k = "boolean" -> x.v = "true"
    [] x.k \in {"null", "undefined"} -> FALSE
    [] OTHER -> TRUE

IsArray(x) == x.k = "array"

(***************************************************************************)
(* JSON text: lexical tokens.                                              *)
(***************************************************************************)
Tok(t, v) == [t |-> t, v |-> v]
LBrace == Tok("punct", "{")
RBrace == Tok("punct", "}")
LBracket == Tok("punct", "[")
RBracket == Tok("punct", "]")
Colon == Tok("punct", ":")
Comma == Tok("punct", ",")
Space == Tok("ws", " ")
Newline == Tok("ws", "\\n")
\* U+FEFF: white space for String.prototype.trim, not for the JSON grammar.
BOM == Tok("ws", "\\uFEFF")
Word(w) == Tok("word", w)

IsJsonWs(tok) == tok \in {Space, Newline}
IsTrimWs(tok) == tok.t = "ws"

\* JSON.stringify(value, null, 2); unserializable values make it throw.
RECURSIVE CanStringify(_)
CanStringify(x) ==
  CASE x.k = "bigint" -> FALSE
    [] x.k = "array" -> \A n \in 1..Len(x.items) : CanStringify(x.items[n])
    [] x.k = "object" ->
         /\ ~IsCircular(x)
         /\ \A n \in 1..Len(x.fields) : CanStringify(x.fields[n][2])
    [] OTHER -> TRUE

RECURSIVE JSONstringify(_)
RECURSIVE StringifyItems(_, _)
RECURSIVE StringifyFields(_, _)
JSONstringify(x) ==
  CASE x.k = "string" -> <<Tok("str", x.v)>>
    [] x.k = "number" ->
         IF x.v = "NaN" THEN <<Tok("lit", "null")>> ELSE <<Tok("num", x.v)>>
    [] x.k = "boolean" -> <<Tok("lit", x.v)>>
    [] x.k = "null" -> <<Tok("lit", "null")>>
    [] x.k = "array" ->
         IF x.items = <<>> THEN <<LBracket, RBracket>>
         ELSE <<LBracket>> \o StringifyItems(x.items, 1) \o <<Newline, RBracket>>
    [] x.k = "object" ->
         IF x.fields = <<>> THEN <<LBrace, RBrace>>
         ELSE <<LBrace>> \o StringifyFields(x.fields, 1) \o <<Newline, RBrace>>

StringifyItems(items, n) ==
  IF n > Len(items) THEN <<>>
  ELSE <<Newline>> \o JSONstringify(items[n])
       \o (IF n < Len(items) THEN <<Comma>> ELSE <<>>)
       \o StringifyItems(items, n + 1)

StringifyFields(fields, n) ==
  IF n > Len(fields) THEN <<>>
  ELSE <<Newline, Tok("str", fields[n][1]), Colon, Space>>
       \o JSONstringify(fields[n][2])
       \o (IF n < Len(fields) THEN <<Comma>> ELSE <<>>)
       \o StringifyFields(fields, n + 1)

\* Mutant of trim: the text is parsed as received.
trimNothing(text) == text

\* String.prototype.trim
RECURSIVE TrimStart(_)
TrimStart(text) ==
  IF text # <<>> /\ IsTrimWs(Head(text)) THEN TrimStart(Tail(text)) ELSE text

RECURSIVE TrimEnd(_)
TrimEnd(text) ==
  IF text # <<>> /\ IsTrimWs(text[Len(text)])
  THEN TrimEnd(SubSeq(text, 1, Len(text) - 1))
  ELSE text

trim(text) == TrimEnd(TrimStart(text))

\* JSON.parse: the JSON grammar over the tokens, white space skipped.
ParseFail == [ok |-> FALSE]
ParseOk(val, next) == [ok |-> TRUE, val |-> val, next |-> next]

RECURSIVE SkipWs(_, _)
SkipWs(t, p) ==
  IF p <= Len(t) /\ IsJsonWs(t[p]) THEN SkipWs(t, p + 1) ELSE p

RECURSIVE ParseValue(_, _)
RECURSIVE ParseElements(_, _, _)
RECURSIVE ParseMembers(_, _, _)
ParseValue(t, p0) ==
  LET p == SkipWs(t, p0) IN
  IF p > Len(t) THEN ParseFail
  ELSE LET c == t[p] IN
    CASE c.t = "str" -> ParseOk(JStr(c.v), p + 1)
      [] c.t = "num" -> ParseOk(JNum(c.v), p + 1)
      [] c.t = "lit" ->
           ParseOk(IF c.v = "null" THEN JNull ELSE JBool(c.v), p + 1)
      [] c = LBracket ->
           LET q == SkipWs(t, p + 1) IN
           IF q <= Len(t) /\ t[q] = RBracket THEN ParseOk(JArr(<<>>), q + 1)
           ELSE ParseElements(t, q, <<>>)
      [] c = LBrace ->
           LET q == SkipWs(t, p + 1) IN
           IF q <= Len(t) /\ t[q] = RBrace THEN ParseOk(JObj(<<>>), q + 1)
           ELSE ParseMembers(t, q, <<>>)
      [] OTHER -> ParseFail

ParseElements(t, p, acc) ==
  LET r == ParseValue(t, p) IN
  IF ~r.ok THEN ParseFail
  ELSE LET q == SkipWs(t, r.next) IN
    IF q > Len(t) THEN ParseFail
    ELSE IF t[q] = Comma THEN ParseElements(t, q + 1, Append(acc, r.val))
    ELSE IF t[q] = RBracket THEN ParseOk(JArr(Append(acc, r.val)), q + 1)
    ELSE ParseFail

ParseMembers(t, p0, acc) ==
  LET p == SkipWs(t, p0) IN
  IF p > Len(t) \/ t[p].t # "str" THEN ParseFail
  ELSE LET c == SkipWs(t, p + 1) IN
    IF c > Len(t) \/ t[c] # Colon THEN ParseFail
    ELSE LET r == ParseValue(t, c + 1) IN
      IF ~r.ok THEN ParseFail
      ELSE LET q == SkipWs(t, r.next) IN
        IF q > Len(t) THEN ParseFail
        ELSE IF t[q] = Comma
          THEN ParseMembers(t, q + 1, Append(acc, <<t[p].v, r.val>>))
        ELSE IF t[q] = RBrace
          THEN ParseOk(JObj(Append(acc, <<t[p].v, r.val>>)), q + 1)
        ELSE ParseFail

\* The whole text must be one value, white space around it allowed.
JSONparse(text) ==
  LET r == ParseValue(text, 1) IN
  IF r.ok /\ SkipWs(text, r.next) = Len(text) + 1
  THEN [ok |-> TRUE, val |-> r.val]
  ELSE ParseFail

(***************************************************************************)
(* Text of messages, and thrown values.                                    *)
(***************************************************************************)
Min(a, b) == IF a < b THEN a ELSE b

ErrorObj(name, message) == [isError |-> TRUE, name |-> name, message |-> message]
\* throw of a value that is not an Error (a rejection with a string or an object)
Thrown(value) == [isError |-> FALSE, value |-> value]

\* String(value)
String(x) ==
  CASE x.k \in {"string", "number", "boolean", "null", "undefined"} -> <<Word(x.v)>>
    [] x.k = "array" -> <<Word("")>>
    [] OTHER -> <<Word("[object Object]")>>

\* Mutant of ErrorDetails: reads a property an Error does not have.
ErrorDetailsNoMessage(error) ==
  IF error.isError THEN <<Word("undefined")>> ELSE String(error.value)

\* error instanceof Error ? error.message : String(error)
ErrorDetails(error) ==
  IF error.isError THEN error.message ELSE String(error.value)

\* headers.join(', ')
RECURSIVE join(_, _)
join(strs, sep) ==
  IF strs = <<>> THEN <<>>
  ELSE IF Len(strs) = 1 THEN <<Word(strs[1])>>
  ELSE <<Word(strs[1]), Word(sep)>> \o join(Tail(strs), sep)

\* Mutant of slice: the end index is taken as inclusive.
sliceInclusive(arr, start, end) == SubSeq(arr, start + 1, Min(end + 1, Len(arr)))

\* Array.prototype.slice(start, end) with 0 <= start <= end: a new array.
slice(arr, start, end) == SubSeq(arr, start + 1, Min(end, Len(arr)))

SampleLimit == 5

ErrorMarker == Word("Error")

NoKeyInsightsText ==
  <<ErrorMarker,
    Word(": La clave API de Gemini no está configurada. Por favor, configúrela en las variables de entorno.")>>

InsightsErrorPrefix ==
  <<ErrorMarker,
    Word(" al contactar la API de Gemini. Por favor, revisa la consola para más detalles. Detalles: ")>>

NoKeyError == ErrorObj("Error", <<Word("La clave API de Gemini no está configurada.")>>)

ShapeError == ErrorObj("Error", <<Word("La respuesta de la IA no tiene el formato esperado.")>>)

SuggestionsErrorPrefix == <<Word("Error al obtener sugerencias de la IA. Detalles: ")>>

\* What the JavaScript engine throws.
CircularError == ErrorObj("TypeError", <<Word("Converting circular structure to JSON")>>)
BigIntError == ErrorObj("TypeError", <<Word("Do not know how to serialize a BigInt")>>)
SyntaxError == ErrorObj("SyntaxError", <<Word("Unexpected token in JSON")>>)
NullPropertyError ==
  ErrorObj("TypeError", <<Word("Cannot read properties of null (reading 'dependentVar')")>>)

RECURSIVE HasBigInt(_)
HasBigInt(x) ==
  CASE x.k = "bigint" -> TRUE
    [] x.k = "array" -> \E n \in 1..Len(x.items) : HasBigInt(x.items[n])
    [] x.k = "object" ->
         /\ ~IsCircular(x)
         /\ \E n \in 1..Len(x.fields) : HasBigInt(x.fields[n][2])
    [] OTHER -> FALSE

StringifyError(x) == IF HasBigInt(x) THEN BigIntError ELSE CircularError

\* Mutant of Not: only an absent value counts, the empty string does not.
NotOnlyUndefined(x) == x.k = "undefined"

\* !x
Not(x) == ~Truthy(x)

(***************************************************************************)
(* Outcomes of an invocation, and of the remote call.                      *)
(***************************************************************************)
Pending == [kind |-> "pending"]
ReturnText(text) == [kind |-> "return", text |-> text]
ReturnValue(value) == [kind |-> "return", value |-> value]
Throw(error) == [kind |-> "throw", error |-> error]

NotSettled == [settled |-> "pending"]
Fulfilled(text) == [settled |-> "fulfilled", text |-> text]
Rejected(error) == [settled |-> "rejected", error |-> error]

Model == "gemini-2.5-flash"

InsightsPrompt(hs, statsString, sampleDataString) ==
  [template |-> "insights", headers |-> join(hs, ", "),
   stats |-> statsString, sample |-> sampleDataString]

SuggestionsPrompt(hs, sampleDataString) ==
  [template |-> "suggestions", headers |-> join(hs, ", "),
   sample |-> sampleDataString]

InsightsRequest(prompt) == [model |-> Model, contents |-> prompt]

SuggestionsRequest(prompt) ==
  [model |-> Model, contents |-> prompt,
   responseMimeType |-> "application/json",
   required |-> <<"dependentVar", "independentVars">>]

(***************************************************************************)
(* Module initialisation (lines 4-12).                                     *)
(***************************************************************************)
Credentials == {JUndefined, JStr(""), JStr("AIza-key")}

GoogleGenAI(apiKey) == [apiKey |-> apiKey]

StartupWarning ==
  [level |-> "warn", text |-> <<Word("API_KEY for Gemini is not set in environment variables.")>>]

Init ==
  /\ API_KEY \in Credentials
  /\ ai = GoogleGenAI(API_KEY)
  /\ console = IF Not(API_KEY) THEN <<StartupWarning>> ELSE <<>>
  /\ pc = [i \in Invocations |-> "idle"]
  /\ op = [i \in Invocations |-> "none"]
  /\ passed = [i \in Invocations |-> <<>>]
  /\ headers = [i \in Invocations |-> <<>>]
  /\ stats = [i \in Invocations |-> JUndefined]
  /\ sampleData = [i \in Invocations |-> <<>>]
  /\ requests = [i \in Invocations |-> <<>>]
  /\ remote = [i \in Invocations |-> NotSettled]
  /\ result = [i \in Invocations |-> Pending]

(***************************************************************************)
(* Steps shared by the handlers.                                           *)
(***************************************************************************)
\* The call: the function called and the argument values passed.
Bind(i, name, hs, st, sd) ==
  /\ op' = [op EXCEPT ![i] = name]
  /\ passed' = [passed EXCEPT ![i] = <<hs, st, sd>>]

\* The caller's objects as the synchronous part of the call leaves them.
Leave(i, hs, st, sd) ==
  /\ headers' = [headers EXCEPT ![i] = hs]
  /\ stats' = [stats EXCEPT ![i] = st]
  /\ sampleData' = [sampleData EXCEPT ![i] = sd]

\* The async function's promise settles.
Finish(i, outcome) ==
  /\ result' = [result EXCEPT ![i] = outcome]
  /\ pc' = [pc EXCEPT ![i] = "done"]

\* await ai.models.generateContent(request)
Send(i, request) ==
  /\ requests' = [requests EXCEPT ![i] = Append(@, request)]
  /\ pc' = [pc EXCEPT ![i] = "awaiting"]

ConsoleError(label, error) ==
  [level |-> "error", text |-> <<Word(label)>> \o ErrorDetails(error)]

(***************************************************************************)
(* getDatasetInsights (lines 14-61).                                       *)
(***************************************************************************)
\* Lines 19-55: the call, up to the await.
getDatasetInsights(i, hs, st, sd) ==
  /\ pc[i] = "idle"
  /\ Bind(i, "getDatasetInsights", hs, st, sd)
  /\ Leave(i, hs, st, sd)
  /\ IF Not(API_KEY)
     THEN Finish(i, ReturnText(NoKeyInsightsText)) /\ UNCHANGED requests
     ELSE IF ~CanStringify(st)
     THEN Finish(i, Throw(StringifyError(st))) /\ UNCHANGED requests
     ELSE IF ~CanStringify(JArr(sd))
     THEN Finish(i, Throw(StringifyError(JArr(sd)))) /\ UNCHANGED requests
     ELSE LET statsString == JSONstringify(st)
              sampleDataString == JSONstringify(JArr(sd))
              prompt == InsightsPrompt(hs, statsString, sampleDataString)
          IN Send(i, InsightsRequest(prompt)) /\ UNCHANGED result
  /\ UNCHANGED <<API_KEY, ai, console, remote>>

\* Line 56: return response.text
InsightsFulfilled(i, text) ==
  /\ pc[i] = "awaiting"
  /\ op[i] = "getDatasetInsights"
  /\ remote' = [remote EXCEPT ![i] = Fulfilled(text)]
  /\ Finish(i, ReturnText(text))
  /\ UNCHANGED <<API_KEY, ai, console, op, passed, headers, stats, sampleData, requests>>

\* Mutant of InsightsRejected: one retry of the remote call before giving up.
InsightsRejectedRetry(i, error) ==
  /\ pc[i] = "awaiting"
  /\ op[i] = "getDatasetInsights"
  /\ remote' = [remote EXCEPT ![i] = Rejected(error)]
  /\ console' = Append(console, ConsoleError("Error calling Gemini API:", error))
  /\ IF Len(requests[i]) < 2
     THEN Send(i, requests[i][1]) /\ UNCHANGED result
     ELSE Finish(i, ReturnText(InsightsErrorPrefix \o ErrorDetails(error)))
          /\ UNCHANGED requests
  /\ UNCHANGED <<API_KEY, ai, op, passed, headers, stats, sampleData>>

\* Lines 57-60: the catch block
InsightsRejected(i, error) ==
  /\ pc[i] = "awaiting"
  /\ op[i] = "getDatasetInsights"
  /\ remote' = [remote EXCEPT ![i] = Rejected(error)]
  /\ console' = Append(console, ConsoleError("Error calling Gemini API:", error))
  /\ Finish(i, ReturnText(InsightsErrorPrefix \o ErrorDetails(error)))
  /\ UNCHANGED <<API_KEY, ai, op, passed, headers, stats, sampleData, requests>>

(***************************************************************************)
(* getVariableSuggestions (lines 63-130).                                  *)
(***************************************************************************)
\* Mutant of getVariableSuggestions: the sample is cut in place
\* (sampleData.splice(5)) instead of copied.
getVariableSuggestionsSplice(i, hs, sd) ==
  /\ pc[i] = "idle"
  /\ Bind(i, "getVariableSuggestions", hs, JUndefined, sd)
  /\ Leave(i, hs, JUndefined,
           IF Not(API_KEY) THEN sd ELSE slice(sd, 0, SampleLimit))
  /\ IF Not(API_KEY)
     THEN Finish(i, Throw(NoKeyError)) /\ UNCHANGED requests
     ELSE LET firstRows == JArr(slice(sd, 0, SampleLimit)) IN
          IF ~CanStringify(firstRows)
          THEN Finish(i, Throw(StringifyError(firstRows))) /\ UNCHANGED requests
          ELSE LET sampleDataString == JSONstringify(firstRows)
                   prompt == SuggestionsPrompt(hs, sampleDataString)
               IN Send(i, SuggestionsRequest(prompt)) /\ UNCHANGED result
  /\ UNCHANGED <<API_KEY, ai, console, remote>>

\* Lines 67-115: the call, up to the await.
getVariableSuggestions(i, hs, sd) ==
  /\ pc[i] = "idle"
  /\ Bind(i, "getVariableSuggestions", hs, JUndefined, sd)
  /\ Leave(i, hs, JUndefined, sd)
  /\ IF Not(API_KEY)
     THEN Finish(i, Throw(NoKeyError)) /\ UNCHANGED requests
     ELSE LET firstRows == JArr(slice(sd, 0, SampleLimit)) IN
          IF ~CanStringify(firstRows)
          THEN Finish(i, Throw(StringifyError(firstRows))) /\ UNCHANGED requests
          ELSE LET sampleDataString == JSONstringify(firstRows)
                   prompt == SuggestionsPrompt(hs, sampleDataString)
               IN Send(i, SuggestionsRequest(prompt)) /\ UNCHANGED result
  /\ UNCHANGED <<API_KEY, ai, console, remote>>

\* Mutant of WrapError: the caught error is thrown again as it is.
WrapErrorRethrow(error) ==
  IF error.isError THEN error ELSE ErrorObj("Error", String(error.value))

\* Line 128: the error the catch block throws
WrapError(error) ==
  ErrorObj("Error", SuggestionsErrorPrefix \o ErrorDetails(error))

\* Lines 117-124, inside the try: a value to return or an error thrown.
ValidateSuggestions(text) ==
  LET jsonText == trim(text)
      parsed == JSONparse(jsonText)
  IN IF ~parsed.ok THEN [thrown |-> TRUE, error |-> SyntaxError]
     ELSE LET suggestions == parsed.val IN
       IF suggestions.k = "null" THEN [thrown |-> TRUE, error |-> NullPropertyError]
       ELSE IF Not(GetProp(suggestions, "dependentVar"))
               \/ ~IsArray(GetProp(suggestions, "independentVars"))
       THEN [thrown |-> TRUE, error |-> ShapeError]
       ELSE [thrown |-> FALSE, value |-> suggestions]

\* Lines 126-129: the catch block
SuggestionsCatch(i, error) ==
  /\ console' = Append(console,
                       ConsoleError("Error calling Gemini API for suggestions:", error))
  /\ Finish(i, Throw(WrapError(error)))

\* Lines 117-129: the remote call fulfilled
SuggestionsFulfilled(i, text) ==
  /\ pc[i] = "awaiting"
  /\ op[i] = "getVariableSuggestions"
  /\ remote' = [remote EXCEPT ![i] = Fulfilled(text)]
  /\ LET v == ValidateSuggestions(text) IN
       IF v.thrown THEN SuggestionsCatch(i, v.error)
       ELSE Finish(i, ReturnValue(v.value)) /\ UNCHANGED console
  /\ UNCHANGED <<API_KEY, ai, op, passed, headers, stats, sampleData, requests>>

\* Mutant of SuggestionsRejected: a failed call discards the credential.
SuggestionsRejectedDropsKey(i, error) ==
  /\ pc[i] = "awaiting"
  /\ op[i] = "getVariableSuggestions"
  /\ remote' = [remote EXCEPT ![i] = Rejected(error)]
  /\ SuggestionsCatch(i, error)
  /\ API_KEY' = JUndefined
  /\ UNCHANGED <<ai, op, passed, headers, stats, sampleData, requests>>

\* Lines 126-129: the remote call rejected
SuggestionsRejected(i, error) ==
  /\ pc[i] = "awaiting"
  /\ op[i] = "getVariableSuggestions"
  /\ remote' = [remote EXCEPT ![i] = Rejected(error)]
  /\ SuggestionsCatch(i, error)
  /\ UNCHANGED <<API_KEY, ai, op, passed, headers, stats, sampleData, requests>>

(***************************************************************************)
(* The inputs the environment supplies: arguments, responses, errors.      *)
(***************************************************************************)
SeqsUpTo(S, n) == UNION {[1..m -> S] : m \in 0..n}

Field(name, value) == <<name, value>>

HeaderLists == {<<>>, <<"ventas", "precio">>}

statsOk == JObj(<<Field("ventas", JObj(<<Field("mean", JNum("10")), Field("std", JNaN)>>))>>)
StatsValues == {statsOk, JCircular}

rowA == JObj(<<Field("ventas", JNum("10"))>>)
rowB == JObj(<<Field("ventas", JNaN)>>)
rowBig == JObj(<<Field("ventas", JBigInt)>>)
Rows == {rowA, rowB, rowBig}

RichSamples == SeqsUpTo(Rows, MaxRows)
FewSamples == {<<>>, <<rowA, rowB>>}

\* JSON text without the optional white space, as a service sends it.
Compact(text) == SelectSeq(text, LAMBDA tok : ~IsTrimWs(tok))

Suggestion(d, v) == JObj(<<Field("dependentVar", d), Field("independentVars", v)>>)

precio == JArr(<<JStr("precio"), JStr("publicidad")>>)

\* Objects with both fields acceptable to the schema sent with the request.
WellShaped ==
  { Suggestion(JStr("ventas"), precio),
    Suggestion(JStr("ventas"), JArr(<<>>)),
    JObj(<<Field("independentVars", precio), Field("dependentVar", JStr("ingresos"))>>),
    JObj(<<Field("dependentVar", JStr("ventas")), Field("independentVars", precio),
           Field("nota", JStr("x"))>>) }

\* dependentVar missing or falsy, or independentVars not an array.
Rejectable ==
  { JObj(<<Field("independentVars", JArr(<<JStr("precio")>>))>>),
    JObj(<<Field("dependentVar", JStr("ventas"))>>),
    Suggestion(JStr(""), precio),
    Suggestion(JNull, precio),
    Suggestion(JNum("0"), precio),
    Suggestion(JStr("ventas"), JStr("precio")),
    Suggestion(JStr("ventas"), JNull),
    Suggestion(JStr("ventas"), JObj(<<>>)),
    JObj(<<>>), JArr(<<>>), JNum("5"), JStr("ventas") }

\* dependentVar present, but not a string.
NonStringDependent ==
  { Suggestion(JNum("5"), precio),
    Suggestion(JBool("true"), precio),
    Suggestion(JArr(<<JStr("ventas")>>), precio) }

IllShaped == Rejectable \cup NonStringDependent \cup {JNull}

ResponseValues == WellShaped \cup IllShaped

good == Compact(JSONstringify(Suggestion(JStr("ventas"), precio)))

\* Text that is not JSON.
Malformed ==
  { <<>>,
    <<Word("not json")>>,
    <<Word("## Resumen"), Newline, Word("Las ventas dependen del precio.")>>,
    SubSeq(good, 1, Len(good) - 1),
    good \o <<Comma>>,
    <<LBrace, BOM, RBrace>> }

Bodies ==
  {Compact(JSONstringify(v)) : v \in ResponseValues}
    \cup {JSONstringify(v) : v \in WellShaped}
    \cup Malformed

Pads == {<<>>, <<Newline>>, <<BOM>>}

AllTexts == {lead \o body \o trail : lead \in Pads, body \in Bodies, trail \in Pads}
FewTexts == {good, <<Word("not json")>>}

AllErrors ==
  { ErrorObj("Error", <<Word("fetch failed")>>),
    ErrorObj("ApiError", <<Word("429 RESOURCE_EXHAUSTED")>>),
    ErrorObj("Error", <<>>),
    Thrown(JStr("timeout")),
    Thrown(JObj(<<Field("code", JNum("503"))>>)) }
FewErrors == {ErrorObj("Error", <<Word("fetch failed")>>)}

(***************************************************************************)
(* Specifications.                                                         *)
(***************************************************************************)
\* The guards are tested before the inputs are drawn.
Step(Inv, Hs, Sts, Sds, Texts, Errs) ==
  \E i \in Inv :
    \/ /\ pc[i] = "idle"
       /\ \E hs \in Hs, st \in Sts, sd \in Sds : getDatasetInsights(i, hs, st, sd)
    \/ /\ pc[i] = "awaiting"
       /\ \E text \in Texts : InsightsFulfilled(i, text)
    \/ /\ pc[i] = "awaiting"
       /\ \E error \in Errs : InsightsRejected(i, error)
    \/ /\ pc[i] = "idle"
       /\ \E hs \in Hs, sd \in Sds : getVariableSuggestions(i, hs, sd)
    \/ /\ pc[i] = "awaiting"
       /\ \E text \in Texts : SuggestionsFulfilled(i, text)
    \/ /\ pc[i] = "awaiting"
       /\ \E error \in Errs : SuggestionsRejected(i, error)

\* One invocation, every sample up to MaxRows rows.
Next == Step({1}, HeaderLists, StatsValues, RichSamples, FewTexts, FewErrors)
Spec == Init /\ [][Next]_vars

\* One invocation, every remote outcome.
NextRemote == Step({1}, {<<"ventas", "precio">>}, StatsValues, FewSamples, AllTexts, AllErrors)
SpecRemote == Init /\ [][NextRemote]_vars

\* Concurrent invocations.
NextConcurrent ==
  Step(Invocations, {<<"ventas", "precio">>}, StatsValues, FewSamples, FewTexts, FewErrors)
SpecConcurrent == Init /\ [][NextConcurrent]_vars

(***************************************************************************)
(* Properties.                                                             *)
(***************************************************************************)
Contains(text, part) == \E n \in 1..Len(text) : text[n] = part

ContainsSeq(text, sub) ==
  \E n \in 0..(Len(text) - Len(sub)) : SubSeq(text, n + 1, n + Len(sub)) = sub

StartsWith(text, sub) ==
  Len(sub) <= Len(text) /\ SubSeq(text, 1, Len(sub)) = sub

Called(i) == pc[i] # "idle"
Done(i) == pc[i] = "done"
IsInsights(i) == op[i] = "getDatasetInsights"
IsSuggestions(i) == op[i] = "getVariableSuggestions"
NoCredential == API_KEY \in {JUndefined, JStr("")}

\* C1: with API_KEY absent or empty, whatever the arguments, a call is over
\* at once and has issued no generateContent call; getDatasetInsights has
\* returned a text that contains the error marker, getVariableSuggestions
\* has thrown.
C1_NoCredentialShortCircuit ==
  \A i \in Invocations :
    (NoCredential /\ Called(i)) =>
      /\ Done(i)
      /\ requests[i] = <<>>
      /\ remote[i] = NotSettled
      /\ IsInsights(i) =>
           /\ result[i].kind = "return"
           /\ Contains(result[i].text, ErrorMarker)
      /\ IsSuggestions(i) => result[i].kind = "throw"

C1_Witness ==
  /\ API_KEY = JStr("")
  /\ Done(1) /\ IsInsights(1)
  /\ Len(sampleData[1]) = MaxRows
  /\ requests[1] = <<>>

\* C2: getDatasetInsights never raises: every finished invocation, whatever
\* its arguments, the credential and the remote outcome, has returned a text.
C2_InsightsNeverRaises ==
  \A i \in Invocations :
    (Done(i) /\ IsInsights(i)) =>
      /\ result[i].kind = "return"
      /\ "text" \in DOMAIN result[i]

\* C3: with a credential, when the remote call rejects with an Error whose
\* message is m, getDatasetInsights returns a text that contains the fixed
\* prefix and m, and getVariableSuggestions throws an error whose message
\* contains m.
C3_TransportErrorSurfaced ==
  \A i \in Invocations :
    (Done(i) /\ ~NoCredential /\ remote[i].settled = "rejected"
       /\ remote[i].error.isError) =>
      LET m == remote[i].error.message IN
        /\ IsInsights(i) =>
             /\ result[i].kind = "return"
             /\ StartsWith(result[i].text, InsightsErrorPrefix)
             /\ ContainsSeq(SubSeq(result[i].text, Len(InsightsErrorPrefix) + 1,
                                   Len(result[i].text)), m)
        /\ IsSuggestions(i) =>
             /\ result[i].kind = "throw"
             /\ ContainsSeq(result[i].error.message, m)

C3_Witness ==
  /\ Done(1) /\ IsSuggestions(1)
  /\ remote[1] = Rejected(ErrorObj("ApiError", <<Word("429 RESOURCE_EXHAUSTED")>>))
  /\ result[1].kind = "throw"

\* The texts in which value v can arrive: compact or indented, padded or not.
TextsOf(v) ==
  {lead \o body \o trail :
     lead \in Pads, body \in {Compact(JSONstringify(v)), JSONstringify(v)},
     trail \in Pads}

Padded(bodies) == {lead \o body \o trail : lead \in Pads, body \in bodies, trail \in Pads}

\* C4: whenever getVariableSuggestions returns, the returned record has a
\* dependentVar that is a non-empty string and an independentVars that is
\* an array.
C4_ReturnedShape ==
  \A i \in Invocations :
    (Done(i) /\ IsSuggestions(i) /\ result[i].kind = "return") =>
      LET d == GetProp(result[i].value, "dependentVar")
          v == GetProp(result[i].value, "independentVars")
      IN /\ d.k = "string" /\ d.v # ""
         /\ v.k = "array"

\* C5: with a credential, every failure of getVariableSuggestions after the
\* call was issued (the remote call rejected, the response text is not
\* JSON, the parsed value fails the shape check) ends in one thrown Error
\* whose message is the fixed prefix followed by the original error's
\* message; none of them returns a value.
C5_FailuresWrapped ==
  \A i \in Invocations :
    (Done(i) /\ IsSuggestions(i) /\ ~NoCredential) =>
      LET wrapped(m) ==
            /\ result[i].kind = "throw"
            /\ result[i].error.name = "Error"
            /\ result[i].error.message = SuggestionsErrorPrefix \o m
      IN /\ remote[i].settled = "rejected" =>
              wrapped(IF remote[i].error.isError
                      THEN remote[i].error.message
                      ELSE String(remote[i].error.value))
         /\ (remote[i].settled = "fulfilled" /\ remote[i].text \in Padded(Malformed)) =>
              wrapped(SyntaxError.message)
         /\ (remote[i].settled = "fulfilled"
               /\ \E v \in Rejectable : remote[i].text \in TextsOf(v)) =>
              wrapped(ShapeError.message)
         /\ (remote[i].settled # "pending" /\ result[i].kind = "throw") =>
              StartsWith(result[i].error.message, SuggestionsErrorPrefix)

C5_Witness ==
  /\ Done(1) /\ IsSuggestions(1)
  /\ remote[1] = Fulfilled(<<Word("not json")>>)
  /\ result[1].kind = "throw"
  /\ result[1].error.message = SuggestionsErrorPrefix \o SyntaxError.message

\* What the JSON text of a row denotes: NaN is written as null.
RowAsJson(row) == IF row = rowB THEN JObj(<<Field("ventas", JNull)>>) ELSE row

\* C6: the sample in the prompt that getVariableSuggestions sends holds
\* exactly the first min(n, 5) rows of the n given, in order; the sample in
\* the prompt that getDatasetInsights sends holds all n rows, in order.
C6_PromptRows ==
  \A i \in Invocations :
    requests[i] # <<>> =>
      LET sent == JSONparse(requests[i][1].contents.sample)
          n == Len(passed[i][3])
          expected == IF IsSuggestions(i) /\ n > 5 THEN 5 ELSE n
      IN /\ sent.ok
         /\ sent.val.k = "array"
         /\ Len(sent.val.items) = expected
         /\ \A r \in 1..expected : sent.val.items[r] = RowAsJson(passed[i][3][r])

C6_Witness ==
  /\ IsSuggestions(1)
  /\ Len(passed[1][3]) = MaxRows /\ MaxRows > 5
  /\ passed[1][3][1] = rowB /\ passed[1][3][5] = rowA /\ passed[1][3][MaxRows] = rowBig
  /\ Len(requests[1]) = 1

\* C7: with a credential, when the response text, trimmed, is the JSON of an
\* object with a non-empty string dependentVar and an array independentVars,
\* getVariableSuggestions returns that object: both fields as in the
\* response, the elements in the same order.
C7_ValidResponseReturned ==
  \A i \in Invocations :
    \A v \in WellShaped :
      (Done(i) /\ IsSuggestions(i) /\ remote[i].settled = "fulfilled"
         /\ remote[i].text \in TextsOf(v)) =>
        /\ result[i].kind = "return"
        /\ GetProp(result[i].value, "dependentVar") = GetProp(v, "dependentVar")
        /\ GetProp(result[i].value, "independentVars") = GetProp(v, "independentVars")
        /\ result[i].value = v

C7_Witness ==
  /\ Done(1) /\ IsSuggestions(1)
  /\ remote[1] = Fulfilled(<<BOM>> \o good \o <<Newline>>)
  /\ result[1] = ReturnValue(Suggestion(JStr("ventas"), precio))

\* The prompt can be built: JSON.stringify accepts what it is given.
PromptBuilds(i) ==
  /\ IsInsights(i) =>
       /\ passed[i][2] # JCircular
       /\ \A r \in 1..Len(passed[i][3]) : passed[i][3][r] # rowBig
  /\ IsSuggestions(i) =>
       \A r \in 1..Len(passed[i][3]) : r <= 5 => passed[i][3][r] # rowBig

\* C8: an invocation issues at most one generateContent call, and exactly
\* one when a credential is configured and the prompt can be built; once the
\* remote call has settled the invocation is over, with a value returned or
\* an error thrown, and no second call made.
C8_SingleAttempt ==
  \A i \in Invocations :
    /\ Len(requests[i]) <= 1
    /\ (Called(i) /\ ~NoCredential /\ PromptBuilds(i)) => Len(requests[i]) = 1
    /\ (Called(i) /\ (NoCredential \/ ~PromptBuilds(i))) => requests[i] = <<>>
    /\ remote[i].settled # "pending" => (Done(i) /\ Len(requests[i]) = 1)
    /\ Done(i) => result[i].kind \in {"return", "throw"}
    /\ ~Done(i) => result[i] = Pending

C8_Witness ==
  /\ Done(1) /\ IsInsights(1)
  /\ remote[1].settled = "rejected"
  /\ Len(requests[1]) = 1
  /\ result[1].kind = "return"

\* C9: under every interleaving, the credential and the client handle stay
\* as constructed, a settled outcome is never changed by a later step, and
\* two invocations of the same function with the same arguments and the
\* same remote outcome have the same outcome.
C9_Independent ==
  /\ [][API_KEY' = API_KEY /\ ai' = ai]_vars
  /\ [][\A i \in Invocations : Done(i) => result'[i] = result[i]]_vars
  /\ [](\A i, j \in Invocations :
          (Done(i) /\ Done(j) /\ op[i] = op[j] /\ passed[i] = passed[j]
             /\ remote[i] = remote[j]) => result[i] = result[j])
  /\ [](ai = GoogleGenAI(API_KEY))

C9_Witness ==
  /\ Done(1) /\ Done(2)
  /\ IsSuggestions(1) /\ IsSuggestions(2)
  /\ passed[1] = passed[2]
  /\ remote[1] = remote[2] /\ remote[1].settled = "rejected"
  /\ result[1] = result[2]

\* C10: from the call on, the caller's headers, stats and sampleData are the
\* values passed, whether the invocation succeeds or fails, and the module
\* state holds the credential and the handle built from it, nothing else.
C10_ArgumentsUntouched ==
  \A i \in Invocations :
    Called(i) =>
      /\ <<headers[i], stats[i], sampleData[i]>> = passed[i]
      /\ ai = GoogleGenAI(API_KEY)
      /\ API_KEY \in Credentials

C10_Witness ==
  /\ Done(1) /\ IsSuggestions(1)
  /\ Len(sampleData[1]) = MaxRows /\ MaxRows > 5
  /\ remote[1].settled = "fulfilled"
  /\ Len(JSONparse(requests[1][1].contents.sample).val.items) = 5

====
